---- MODULE Spec2Model ----
(***************************************************************************)
(* kart-io/logger: the configuration resolvers (option.LogOption.Validate, *)
(* config.Config.Validate), the engine-selecting factory                   *)
(* (factory.LoggerFactory with NewZapLogger / NewSlogLogger), the loggers  *)
(* of both engines with their children, the OTLP export client and the     *)
(* package-level global logger.                                            *)
(*                                                                         *)
(* Specifications: Spec (Validate, CreateLogger), FactorySpec (several     *)
(* options, UpdateOption), LogSpec (leveled calls and children),           *)
(* LevelSpec (the same with SetLevel, export active), RecordSpec (the      *)
(* same on options with the disable-caller flag, export disabled),         *)
(* ExportSpec (Export over HTTP and gRPC), GlobalSpec (goroutines calling  *)
(* Global and SetGlobal).                                                  *)
(*                                                                         *)
(* Go values are represented as follows.                                   *)
(*   *OTLPOption   a sequence: <<>> is the nil pointer, <<r>> points to r  *)
(*   *bool         "unset" (nil), "true", "false"                          *)
(*   error         a string, "nil" when there is no error                  *)
(*   core.Logger   a sequence: <<>> is the nil interface, <<l>> a logger   *)
(***************************************************************************)
EXTENDS Integers, Sequences, FiniteSets, TLC

VARIABLES opts, raw, vres, fopt, lastOp, res, attempts, clients, calls,
          arg, loggers, origin, last, exited, global, threads, created, sets,
          http

\* the option heap, the factory and the result of the last factory operation
factoryVars == <<opts, raw, vres, fopt, lastOp, res, attempts, clients, calls, arg>>

\* the logger heap, the last logger operation and the process's termination
logVars == <<loggers, origin, last, exited>>

\* the package-level logger of logger.go and the goroutines that use it
globalVars == <<global, threads, created, sets>>

vars == <<factoryVars, logVars, globalVars, http>>

(***************************************************************************)
(* Bounds and program constants                                            *)
(***************************************************************************)

\* number of operations (Validate, CreateLogger) one behaviour performs
MaxCalls == 2

\* 10 * time.Second, in seconds
DefaultTimeout == 10

DefaultProtocol == "grpc"

DefaultEngine == "slog"

(***************************************************************************)
(* Input domains                                                           *)
(***************************************************************************)

Engines == {"zap", "slog", "unsupported-engine"}

LevelStrings == {"INFO", "debug", "INVALID"}

Formats == {"console", "yaml"}

OutputPathSets == {<<"stdout">>, <<"/var/log/app.log">>}

FlatEndpoints == {"", "http://flattened:4317"}

NestedEndpoints == {"", "http://flattened:4317", "http://nested:4317"}

Protocols == {"", "grpc", "http"}

\* 0 is the unset time.Duration; 5 is a timeout the user supplied, in seconds
Timeouts == {0, 5}

TriStates == {"unset", "true", "false"}

OTLPOptions ==
    [Enabled : TriStates, Endpoint : NestedEndpoints,
     Protocol : Protocols, Timeout : Timeouts]

\* &OTLPOption{}
EmptyOTLP == [Enabled |-> "unset", Endpoint |-> "", Protocol |-> "", Timeout |-> 0]

LogOptions ==
    [Engine : Engines, Level : LevelStrings, Format : Formats,
     OutputPaths : OutputPathSets, OTLPEndpoint : FlatEndpoints,
     OTLP : {<<>>} \cup {<<o>> : o \in OTLPOptions}]

(***************************************************************************)
(* core.ParseLevel                                                         *)
(***************************************************************************)

\* strings.ToLower on the level spellings of the model
ToLower(s) ==
    CASE s = "INFO" -> "info"
      [] s = "DEBUG" -> "debug"
      [] s = "WARN" -> "warn"
      [] s = "ERROR" -> "error"
      [] s = "FATAL" -> "fatal"
      [] OTHER -> s

LevelNames == {"debug", "info", "warn", "error", "fatal"}

\* [ok |-> the string names a level, level |-> its canonical lowercase form]
ParseLevel(s) ==
    IF ToLower(s) \in LevelNames
    THEN [ok |-> TRUE, level |-> ToLower(s)]
    ELSE [ok |-> FALSE, level |-> "info"]

(***************************************************************************)
(* option.LogOption                                                        *)
(***************************************************************************)

\* the nested setting a resolved option points to (the option's OTLP is non-nil)
Nested(o) == o.OTLP[1]

\* defaults that pad a supplied timeout by one second
ApplyDefaultsPaddingTimeout(n) ==
    IF n.Enabled = "true"
    THEN [n EXCEPT !.Protocol = IF @ = "" THEN DefaultProtocol ELSE @,
                   !.Timeout = IF @ = 0 THEN DefaultTimeout ELSE @ + 1]
    ELSE n

\* the defaults of an enabled export setting
ApplyDefaults(n) ==
    IF n.Enabled = "true"
    THEN [n EXCEPT !.Protocol = IF @ = "" THEN DefaultProtocol ELSE @,
                   !.Timeout = IF @ = 0 THEN DefaultTimeout ELSE @]
    ELSE n

\* a resolver that enables export whenever an endpoint is present
resolveOTLPConfigIgnoringDisable(o) ==
    LET n0 == IF Len(o.OTLP) = 0 THEN EmptyOTLP ELSE o.OTLP[1]
        n1 == IF o.OTLPEndpoint # ""
              THEN [n0 EXCEPT !.Enabled = "true", !.Endpoint = o.OTLPEndpoint]
              ELSE IF n0.Endpoint # "" THEN [n0 EXCEPT !.Enabled = "true"] ELSE n0
    IN  [o EXCEPT !.OTLP = <<ApplyDefaults(n1)>>]

\* a resolver that fills the nested endpoint only when it is empty
resolveOTLPConfigNestedWins(o) ==
    LET n0 == IF Len(o.OTLP) = 0 THEN EmptyOTLP ELSE o.OTLP[1]
    IN  IF o.OTLPEndpoint # ""
        THEN IF n0.Enabled = "false"
             THEN [o EXCEPT !.OTLP = <<n0>>]
             ELSE [o EXCEPT !.OTLP = <<ApplyDefaults(
                     [n0 EXCEPT !.Enabled = "true",
                                !.Endpoint = IF @ = "" THEN o.OTLPEndpoint ELSE @])>>]
        ELSE [o EXCEPT !.OTLP = <<ApplyDefaults(
                IF n0.Enabled = "unset" /\ n0.Endpoint # ""
                THEN [n0 EXCEPT !.Enabled = "true"] ELSE n0)>>]

\* a resolver without auto-detection from the nested endpoint
resolveOTLPConfigNoNestedDetect(o) ==
    LET n0 == IF Len(o.OTLP) = 0 THEN EmptyOTLP ELSE o.OTLP[1]
    IN  IF o.OTLPEndpoint # ""
        THEN IF n0.Enabled = "false"
             THEN [o EXCEPT !.OTLP = <<n0>>]
             ELSE [o EXCEPT !.OTLP = <<ApplyDefaults(
                     [n0 EXCEPT !.Enabled = "true", !.Endpoint = o.OTLPEndpoint])>>]
        ELSE [o EXCEPT !.OTLP = <<ApplyDefaults(n0)>>]

\* a resolver that auto-enables an unset setting without looking for an endpoint
resolveOTLPConfigAlwaysAuto(o) ==
    LET n0 == IF Len(o.OTLP) = 0 THEN EmptyOTLP ELSE o.OTLP[1]
    IN  IF o.OTLPEndpoint # ""
        THEN IF n0.Enabled = "false"
             THEN [o EXCEPT !.OTLP = <<n0>>]
             ELSE [o EXCEPT !.OTLP = <<ApplyDefaults(
                     [n0 EXCEPT !.Enabled = "true", !.Endpoint = o.OTLPEndpoint])>>]
        ELSE [o EXCEPT !.OTLP = <<ApplyDefaults(
                IF n0.Enabled = "unset"
                THEN [n0 EXCEPT !.Enabled = "true"] ELSE n0)>>]

\* a resolver that fills the defaults only for a setting it enabled itself
resolveOTLPConfigDefaultsOnAuto(o) ==
    LET n0 == IF Len(o.OTLP) = 0 THEN EmptyOTLP ELSE o.OTLP[1]
    IN  IF o.OTLPEndpoint # ""
        THEN IF n0.Enabled = "false"
             THEN [o EXCEPT !.OTLP = <<n0>>]
             ELSE [o EXCEPT !.OTLP = <<
                     IF n0.Enabled = "unset"
                     THEN ApplyDefaults([n0 EXCEPT !.Enabled = "true",
                                                   !.Endpoint = o.OTLPEndpoint])
                     ELSE [n0 EXCEPT !.Endpoint = o.OTLPEndpoint]>>]
        ELSE [o EXCEPT !.OTLP = <<
                IF n0.Enabled = "unset" /\ n0.Endpoint # ""
                THEN ApplyDefaults([n0 EXCEPT !.Enabled = "true"]) ELSE n0>>]

\* LogOption.resolveOTLPConfig
resolveOTLPConfig(o) ==
    LET n0 == IF Len(o.OTLP) = 0 THEN EmptyOTLP ELSE o.OTLP[1]
    IN  IF o.OTLPEndpoint # ""
        THEN IF n0.Enabled = "false"
             THEN \* explicit enabled=false: return before anything else changes
                  [o EXCEPT !.OTLP = <<n0>>]
             ELSE [o EXCEPT !.OTLP = <<ApplyDefaults(
                     [n0 EXCEPT !.Enabled = IF @ = "unset" THEN "true" ELSE @,
                                !.Endpoint = o.OTLPEndpoint])>>]
        ELSE [o EXCEPT !.OTLP = <<ApplyDefaults(
                IF n0.Enabled = "unset" /\ n0.Endpoint # ""
                THEN [n0 EXCEPT !.Enabled = "true"] ELSE n0)>>]

\* LogOption.IsOTLPEnabled
IsOTLPEnabled(o) ==
    /\ Len(o.OTLP) > 0
    /\ o.OTLP[1].Enabled = "true"
    /\ o.OTLP[1].Endpoint # ""

\* OTLPOption.IsEnabled, on the pointer p
IsEnabled(p) ==
    /\ Len(p) > 0
    /\ p[1].Enabled = "true"
    /\ p[1].Endpoint # ""

\* a Validate that rejects an unknown engine instead of replacing it
ValidateRejectingEngine(o) ==
    IF ~ParseLevel(o.Level).ok \/ o.Engine \notin {"zap", "slog"}
    THEN [opt |-> o, err |-> "invalid"]
    ELSE [opt |-> resolveOTLPConfig(o), err |-> "nil"]

\* a Validate that leaves the engine selector as given
ValidateKeepingEngine(o) ==
    IF ~ParseLevel(o.Level).ok
    THEN [opt |-> o, err |-> "invalid level"]
    ELSE [opt |-> resolveOTLPConfig(o), err |-> "nil"]

\* LogOption.Validate: the option it leaves behind and the error it returns
ValidateOption(o) ==
    IF ~ParseLevel(o.Level).ok
    THEN [opt |-> o, err |-> "invalid level"]
    ELSE LET r == resolveOTLPConfig(o)
         IN  [opt |-> IF r.Engine # "zap" /\ r.Engine # "slog"
                      THEN [r EXCEPT !.Engine = DefaultEngine] ELSE r,
              err |-> "nil"]

(***************************************************************************)
(* otlp.NewLoggerProvider, zap.NewZapLogger, slog.NewSlogLogger            *)
(*                                                                         *)
(* What the constructors cannot decide themselves is drawn per call:       *)
(*   e.grpc      grpc.NewClient rejects the endpoint                       *)
(*   e.zapSink   zap's config.Build cannot open a file sink                *)
(*   e.slogSink  os.OpenFile fails on a file sink                          *)
(***************************************************************************)

Envs == [grpc : BOOLEAN, zapSink : BOOLEAN, slogSink : BOOLEAN]

\* the switch of normalizeOutputPaths / createOutputWriters: a path that is opened as a file
IsFilePath(p) == ToLower(p) \notin {"stdout", "", "stderr"}

HasFilePath(paths) == \E k \in DOMAIN paths : IsFilePath(paths[k])

\* the handler / encoding the format selects
Encoding(format) == IF ToLower(format) \in {"console", "text"} THEN "console" ELSE "json"

\* the error of otlp.NewLoggerProvider on the pointer p (NewOTLPClient inlined)
NewLoggerProvider(p, e) ==
    IF ~IsEnabled(p) THEN "OTLP is not enabled"
    ELSE IF p[1].Protocol = "grpc" /\ e.grpc THEN "failed to create OTLP client"
    ELSE "nil"

\* zap.mapToZapLevel: the zapcore.Level (Debug -1, Info 0, Warn 1, Error 2,
\* Fatal 5) the zap core is enabled from
mapToZapLevel(level) ==
    CASE level = "debug" -> -1
      [] level = "info" -> 0
      [] level = "warn" -> 1
      [] level = "error" -> 2
      [] level = "fatal" -> 5
      [] OTHER -> 0

\* slog.mapToSlogLevel: the slog.Level (Debug -4, Info 0, Warn 4, Error 8) the
\* handler is enabled from; slog has no Fatal level
mapToSlogLevel(level) ==
    CASE level = "debug" -> -4
      [] level = "info" -> 0
      [] level = "warn" -> 4
      [] level = "error" -> 8
      [] level = "fatal" -> 8
      [] OTHER -> 0

\* config.Level of createZapConfig / handlerOpts.Level of NewSlogLogger
mapToEngineLevel(engine, level) ==
    IF engine = "zap" THEN mapToZapLevel(level) ELSE mapToSlogLevel(level)

\* opt.DisableCaller: false in an option that does not set the flag
DisableCaller(o) == IF "DisableCaller" \in DOMAIN o THEN o.DisableCaller ELSE FALSE

\* the body of an engine constructor after its call of opt.Validate() returned
\* v: the OTLP provider, then the sinks, then the logger. n is the number of
\* export clients opened so far. Returns the option as Validate left it, the
\* logger (or nil), the error and the number of export clients this call opened.
buildLogger(engine, v, e, n) ==
    LET otlp == IsOTLPEnabled(v.opt)
        perr == IF otlp THEN NewLoggerProvider(v.opt.OTLP, e) ELSE "nil"
        opened == IF otlp /\ perr = "nil" THEN 1 ELSE 0
        sinkErr == /\ HasFilePath(v.opt.OutputPaths)
                   /\ IF engine = "zap" THEN e.zapSink ELSE e.slogSink
    IN  IF v.err # "nil"
        THEN [opt |-> v.opt, logger |-> <<>>, err |-> v.err, opened |-> 0]
        ELSE IF perr # "nil"
        THEN [opt |-> v.opt, logger |-> <<>>,
              err |-> "failed to create OTLP provider", opened |-> 0]
        ELSE IF sinkErr
        THEN [opt |-> v.opt, logger |-> <<>>, err |-> "open sink", opened |-> opened]
        ELSE [opt |-> v.opt,
              logger |-> <<[engine |-> engine,
                            level |-> ParseLevel(v.opt.Level).level,
                            sinkLevel |-> mapToEngineLevel(engine,
                                              ParseLevel(v.opt.Level).level),
                            encoding |-> Encoding(v.opt.Format),
                            fields |-> <<>>,
                            callerSkip |-> 0,
                            disableCaller |-> DisableCaller(v.opt),
                            otlpProvider |-> IF otlp THEN n + 1 ELSE 0]>>,
              err |-> "nil", opened |-> opened]

\* zap.NewZapLogger on the option o
NewZapLogger(o, e, n) == buildLogger("zap", ValidateOption(o), e, n)

\* slog.NewSlogLogger on the option o
NewSlogLogger(o, e, n) == buildLogger("slog", ValidateOption(o), e, n)

(***************************************************************************)
(* factory.LoggerFactory                                                   *)
(***************************************************************************)

Alternate(engine) == IF engine = "zap" THEN "slog" ELSE "zap"

\* f.createZapLogger() / f.createSlogLogger() on the held option o
createEngineLogger(engine, o, e, n) ==
    IF engine = "zap" THEN NewZapLogger(o, e, n) ELSE NewSlogLogger(o, e, n)

\* one entry of the construction log: which engine was tried, and its error
Attempt(engine, r) == [engine |-> engine, err |-> r.err]

\* a switch that returns the requested engine's error without a fallback
tryEnginesNoFallback(requested, first, e, n) ==
    [opt |-> first.opt, logger |-> first.logger, err |-> first.err,
     attempts |-> <<Attempt(requested, first)>>, opened |-> first.opened]

\* a switch with a last-resort logger when both engines fail
tryEnginesLastResort(requested, first, e, n) ==
    IF first.err = "nil"
    THEN [opt |-> first.opt, logger |-> first.logger, err |-> "nil",
          attempts |-> <<Attempt(requested, first)>>, opened |-> first.opened]
    ELSE LET second == createEngineLogger(Alternate(requested), first.opt, e,
                                       n + first.opened)
         IN  [opt |-> second.opt,
              logger |-> IF second.err = "nil" THEN second.logger
                         ELSE <<[engine |-> "noop", level |-> "info",
                                 sinkLevel |-> 0, encoding |-> "json",
                                 fields |-> <<>>, callerSkip |-> 0,
                                 disableCaller |-> FALSE,
                                 otlpProvider |-> 0]>>,
              err |-> "nil",
              attempts |-> <<Attempt(requested, first),
                             Attempt(Alternate(requested), second)>>,
              opened |-> first.opened + second.opened]

\* the switch of CreateLogger: first is the result of constructing the requested
\* engine; the alternate is constructed only when first failed
tryEngines(requested, first, e, n) ==
    IF first.err = "nil"
    THEN [opt |-> first.opt, logger |-> first.logger, err |-> "nil",
          attempts |-> <<Attempt(requested, first)>>, opened |-> first.opened]
    ELSE LET second == createEngineLogger(Alternate(requested), first.opt, e,
                                       n + first.opened)
         IN  [opt |-> second.opt, logger |-> second.logger, err |-> second.err,
              attempts |-> <<Attempt(requested, first),
                             Attempt(Alternate(requested), second)>>,
              opened |-> first.opened + second.opened]

\* a CreateLogger that constructs without looking at Validate's error
createAfterValidateUnchecked(v, e, n) ==
    tryEngines(IF v.opt.Engine = "zap" THEN "zap" ELSE "slog",
               createEngineLogger(IF v.opt.Engine = "zap" THEN "zap" ELSE "slog",
                               v.opt, e, n), e, n)

\* CreateLogger after its call of f.option.Validate() returned v
createAfterValidate(v, e, n) ==
    IF v.err # "nil"
    THEN [opt |-> v.opt, logger |-> <<>>, err |-> "invalid configuration",
          attempts |-> <<>>, opened |-> 0]
    ELSE IF v.opt.Engine # "zap" /\ v.opt.Engine # "slog"
    THEN [opt |-> v.opt, logger |-> <<>>, err |-> "unsupported logger engine",
          attempts |-> <<>>, opened |-> 0]
    ELSE tryEngines(v.opt.Engine, createEngineLogger(v.opt.Engine, v.opt, e, n), e, n)

\* LoggerFactory.CreateLogger on the held option o, under environment e, with n
\* export clients opened so far: the option as the call leaves it, the returned
\* logger and error, the constructions attempted in order, and the number of
\* export clients the call opened
CreateLoggerCall(o, e, n) == createAfterValidate(ValidateOption(o), e, n)

(***************************************************************************)
(* The state machine                                                       *)
(***************************************************************************)

TypeOK ==
    /\ \A i \in DOMAIN raw : raw[i] \in LogOptions
    /\ \A i \in DOMAIN opts :
         /\ opts[i].Engine \in Engines /\ opts[i].Level \in LevelStrings
         /\ Len(opts[i].OTLP) <= 1
         /\ vres[i] \in {"none", "ok", "err"}
    /\ Len(opts) = Len(raw) /\ Len(vres) = Len(opts)
    /\ fopt \in DOMAIN opts
    /\ clients \in Nat /\ calls \in 0..MaxCalls

\* no operation on a logger yet
NoCall ==
    [op |-> "none", logger |-> 0, sev |-> "none", conv |-> "none", kvs |-> <<>>,
     written |-> <<>>, sinkFailed |-> FALSE, sent |-> <<>>, exportFailed |-> FALSE,
     events |-> <<>>]

\* no logger has been handed to the application yet
NoLoggers ==
    /\ loggers = <<>>
    /\ origin = <<>>
    /\ last = NoCall
    /\ exited = FALSE

\* number of goroutines that use the package-level logger
NumThreads == 2

Threads == 1 .. NumThreads

\* a goroutine that is in no function of logger.go: logger is the local
\* variable of Global(), ret the value its last Global() returned, n the
\* number of calls it has completed
Idle == [pc |-> "idle", logger |-> <<>>, ret |-> <<>>, returned |-> FALSE, n |-> 0]

\* var global core.Logger, before any goroutine touched it
NoGlobal ==
    /\ global = <<>>
    /\ threads = [t \in Threads |-> Idle]
    /\ created = 0
    /\ sets = 0

\* no export request has been posted
NoPost ==
    [endpoint |-> <<>>, protocol |-> "", url |-> <<>>, status |-> 0, err |-> "nil",
     posts |-> 0]

\* opt := &LogOption{...}; f := NewLoggerFactory(opt)
Init ==
    /\ \E o \in LogOptions : opts = <<o>> /\ raw = <<o>>
    /\ vres = <<"none">>
    /\ fopt = 1
    /\ lastOp = "NewLoggerFactory"
    /\ res = [logger |-> <<>>, err |-> "nil"]
    /\ attempts = <<>>
    /\ clients = 0
    /\ calls = 0
    /\ arg = 0
    /\ NoLoggers
    /\ NoGlobal
    /\ http = NoPost

\* opts[i].Validate(), called by the owner of the option
Validate(i) ==
    /\ calls < MaxCalls
    /\ LET v == ValidateOption(opts[i])
       IN  /\ opts' = [opts EXCEPT ![i] = v.opt]
           /\ vres' = [vres EXCEPT ![i] = IF v.err = "nil" THEN "ok" ELSE "err"]
    /\ lastOp' = "Validate"
    /\ calls' = calls + 1
    /\ UNCHANGED <<raw, fopt, res, attempts, clients, arg>>
    /\ UNCHANGED logVars
    /\ UNCHANGED <<globalVars, http>>

\* f.CreateLogger()
CreateLogger ==
    /\ calls < MaxCalls
    /\ \E e \in Envs :
         LET c == CreateLoggerCall(opts[fopt], e, clients)
         IN  /\ opts' = [opts EXCEPT ![fopt] = c.opt]
             /\ vres' = [vres EXCEPT ![fopt] =
                            IF c.err = "invalid configuration" THEN "err" ELSE "ok"]
             /\ res' = [logger |-> c.logger, err |-> c.err]
             /\ attempts' = c.attempts
             /\ clients' = clients + c.opened
    /\ lastOp' = "CreateLogger"
    /\ calls' = calls + 1
    /\ UNCHANGED <<raw, fopt, arg>>
    /\ UNCHANGED logVars
    /\ UNCHANGED <<globalVars, http>>

\* some owner of an option validates it
ValidateSome == \E i \in DOMAIN opts : Validate(i)

Next ==
    \/ ValidateSome
    \/ CreateLogger

Spec == Init /\ [][Next]_vars

(***************************************************************************)
(* Properties of the configuration resolver                                *)
(***************************************************************************)

\* the nested setting of option i as the caller built it (nil reads as &OTLPOption{})
RawNested(i) == IF Len(raw[i].OTLP) = 0 THEN EmptyOTLP ELSE raw[i].OTLP[1]

\* Validate() has run on option i and returned nil: the option is resolved
Resolved(i) == vres[i] = "ok"

\* C1: for every option whose nested OTLP.Enabled is explicitly false, after
\* Validate() (whether it returned nil or an error) IsOTLPEnabled() is false,
\* whatever the flattened and the nested endpoint are.
C1_ExplicitDisableWins ==
    \A i \in DOMAIN opts :
        (vres[i] # "none" /\ Len(raw[i].OTLP) = 1 /\ raw[i].OTLP[1].Enabled = "false")
            => ~IsOTLPEnabled(opts[i])

C1_Witness ==
    \E i \in DOMAIN opts :
        /\ Resolved(i)
        /\ Len(raw[i].OTLP) = 1 /\ raw[i].OTLP[1].Enabled = "false"
        /\ raw[i].OTLPEndpoint # "" /\ raw[i].OTLP[1].Endpoint # ""
        /\ raw[i].OTLPEndpoint # raw[i].OTLP[1].Endpoint
        /\ ~IsOTLPEnabled(opts[i])

\* C2 as stated: with both a flattened and a nested endpoint set, for every
\* value of the tri-state (unset, true, false), the resolved nested endpoint
\* equals the flattened value.
C2_FlattenedWinsForEveryTriState ==
    \A i \in DOMAIN opts :
        (Resolved(i) /\ raw[i].OTLPEndpoint # "" /\ RawNested(i).Endpoint # "")
            => Nested(opts[i]).Endpoint = raw[i].OTLPEndpoint

\* C2 amended: with both endpoints set and enabled unset or true, after a
\* Validate() that returned nil the resolved nested endpoint equals the
\* flattened value; with enabled explicitly false the nested endpoint is left
\* as the caller gave it.
C2_FlattenedWinsUnlessDisabled ==
    \A i \in DOMAIN opts :
        (Resolved(i) /\ raw[i].OTLPEndpoint # "" /\ RawNested(i).Endpoint # "")
            => Nested(opts[i]).Endpoint =
                   IF RawNested(i).Enabled = "false"
                   THEN RawNested(i).Endpoint ELSE raw[i].OTLPEndpoint

C2_Witness ==
    \E i \in DOMAIN opts :
        /\ Resolved(i)
        /\ RawNested(i).Enabled = "true"
        /\ raw[i].OTLPEndpoint # "" /\ RawNested(i).Endpoint # ""
        /\ raw[i].OTLPEndpoint # RawNested(i).Endpoint
        /\ Nested(opts[i]).Endpoint = raw[i].OTLPEndpoint

\* C3: auto-detection. For every option whose enabled tri-state is unset, once
\* Validate() has resolved it: only the flattened endpoint set => IsOTLPEnabled()
\* and the nested endpoint equals the flattened one; only the nested endpoint
\* set => enabled is set to true and IsOTLPEnabled(); neither set => enabled
\* stays unset and IsOTLPEnabled() is false.
C3_AutoDetection ==
    \A i \in DOMAIN opts :
        (Resolved(i) /\ RawNested(i).Enabled = "unset") =>
            /\ (raw[i].OTLPEndpoint # "" /\ RawNested(i).Endpoint = "")
                  => /\ IsOTLPEnabled(opts[i])
                     /\ Nested(opts[i]).Endpoint = raw[i].OTLPEndpoint
            /\ (raw[i].OTLPEndpoint = "" /\ RawNested(i).Endpoint # "")
                  => /\ Nested(opts[i]).Enabled = "true"
                     /\ IsOTLPEnabled(opts[i])
                     /\ Nested(opts[i]).Endpoint = RawNested(i).Endpoint
            /\ (raw[i].OTLPEndpoint = "" /\ RawNested(i).Endpoint = "")
                  => /\ Nested(opts[i]).Enabled = "unset"
                     /\ ~IsOTLPEnabled(opts[i])

C3_Witness ==
    \E i \in DOMAIN opts :
        /\ Resolved(i)
        /\ Len(raw[i].OTLP) = 1 /\ raw[i].OTLP[1].Enabled = "unset"
        /\ raw[i].OTLPEndpoint = "" /\ raw[i].OTLP[1].Endpoint # ""
        /\ Nested(opts[i]).Enabled = "true"
        /\ IsOTLPEnabled(opts[i])

\* C4 as stated: after Validate() the resolved setting is never enabled = true
\* with an empty endpoint.
C4_EnabledImpliesEndpoint ==
    \A i \in DOMAIN opts :
        (Resolved(i) /\ Nested(opts[i]).Enabled = "true")
            => Nested(opts[i]).Endpoint # ""

\* C4 amended: after a Validate() that returned nil, enabled = true with an
\* empty endpoint occurs only where the caller set enabled = true and gave no
\* endpoint at all (the resolver never produces it by auto-enabling), and in
\* that state IsOTLPEnabled() is false.
C4_EndpointlessOnlyWhenGivenSo ==
    \A i \in DOMAIN opts :
        (Resolved(i) /\ Nested(opts[i]).Enabled = "true"
                     /\ Nested(opts[i]).Endpoint = "")
            => /\ RawNested(i).Enabled = "true"
               /\ raw[i].OTLPEndpoint = "" /\ RawNested(i).Endpoint = ""
               /\ ~IsOTLPEnabled(opts[i])

C4_Witness ==
    \E i \in DOMAIN opts :
        /\ Resolved(i)
        /\ RawNested(i).Enabled = "true"
        /\ Nested(opts[i]).Enabled = "true" /\ Nested(opts[i]).Endpoint = ""
        /\ ~IsOTLPEnabled(opts[i])

\* C5: once Validate() has resolved an option, enabled = true implies a
\* non-empty protocol and a non-zero timeout: an empty protocol became "grpc",
\* a zero timeout became 10s, a protocol or timeout the caller supplied is
\* kept; when enabled is not true, protocol and timeout are as given.
C5_DefaultsWhenEnabled ==
    \A i \in DOMAIN opts :
        Resolved(i) =>
            IF Nested(opts[i]).Enabled = "true"
            THEN /\ Nested(opts[i]).Protocol # "" /\ Nested(opts[i]).Timeout # 0
                 /\ Nested(opts[i]).Protocol =
                        IF RawNested(i).Protocol = "" THEN "grpc"
                        ELSE RawNested(i).Protocol
                 /\ Nested(opts[i]).Timeout =
                        IF RawNested(i).Timeout = 0 THEN 10 ELSE RawNested(i).Timeout
            ELSE /\ Nested(opts[i]).Protocol = RawNested(i).Protocol
                 /\ Nested(opts[i]).Timeout = RawNested(i).Timeout

C5_Witness ==
    \E i \in DOMAIN opts :
        /\ Resolved(i)
        /\ Len(raw[i].OTLP) = 0 /\ raw[i].OTLPEndpoint # ""
        /\ IsOTLPEnabled(opts[i])
        /\ Nested(opts[i]).Protocol = "grpc" /\ Nested(opts[i]).Timeout = 10

\* C6: Validate() returns an error if and only if the level string fails to
\* parse, whatever engine, format, output paths, endpoints, enabled flag,
\* protocol and timeout are.
C6_OnlyLevelFails ==
    \A i \in DOMAIN opts :
        vres[i] # "none" => (vres[i] = "err" <=> ~ParseLevel(raw[i].Level).ok)

C6_Witness ==
    \E i \in DOMAIN opts :
        /\ lastOp = "Validate" /\ Resolved(i)
        /\ raw[i].Engine = "unsupported-engine" /\ raw[i].Format = "yaml"
        /\ HasFilePath(raw[i].OutputPaths)
        /\ RawNested(i).Enabled = "true" /\ RawNested(i).Endpoint = ""
        /\ raw[i].OTLPEndpoint = "" /\ RawNested(i).Protocol = "http"

\* C7: after a Validate() that returned nil the engine selector is "zap" or
\* "slog", any other value having been replaced by "slog"; CreateLogger never
\* returns an "unsupported logger engine" error.
C7_EngineNormalized ==
    /\ \A i \in DOMAIN opts :
          Resolved(i) =>
              opts[i].Engine = IF raw[i].Engine \in {"zap", "slog"}
                               THEN raw[i].Engine ELSE "slog"
    /\ res.err # "unsupported logger engine"

C7_Witness ==
    /\ lastOp = "CreateLogger"
    /\ raw[fopt].Engine = "unsupported-engine"
    /\ opts[fopt].Engine = "slog"
    /\ res.err = "nil" /\ Len(res.logger) = 1 /\ res.logger[1].engine = "slog"

(***************************************************************************)
(* Properties of the factory                                               *)
(***************************************************************************)

\* C8 as stated: if construction of the requested engine fails, CreateLogger
\* returns a logger of the alternate engine and no error, whatever made the
\* requested construction fail.
C8_FallbackAlwaysWorks ==
    (lastOp = "CreateLogger" /\ Len(attempts) >= 1 /\ attempts[1].err # "nil")
        => /\ res.err = "nil"
           /\ Len(res.logger) = 1
           /\ res.logger[1].engine = Alternate(attempts[1].engine)

\* C8 amended: if construction of the requested engine fails, CreateLogger
\* constructs the alternate engine and returns whatever that construction
\* returns: the alternate logger and no error when it succeeds, no logger and
\* the alternate's error when it fails too.
C8_FallbackReturnsAlternateResult ==
    (lastOp = "CreateLogger" /\ Len(attempts) >= 1 /\ attempts[1].err # "nil")
        => /\ Len(attempts) = 2
           /\ attempts[2].engine = Alternate(attempts[1].engine)
           /\ res.err = attempts[2].err
           /\ IF attempts[2].err = "nil"
              THEN Len(res.logger) = 1 /\ res.logger[1].engine = attempts[2].engine
              ELSE res.logger = <<>>

C8_Witness ==
    /\ lastOp = "CreateLogger"
    /\ Len(attempts) = 2
    /\ attempts[1].engine = "zap" /\ attempts[1].err # "nil"
    /\ res.err = "nil" /\ Len(res.logger) = 1 /\ res.logger[1].engine = "slog"

C10_InvalidConfigIsTerminal ==
    [][(lastOp' = "CreateLogger" /\ calls' = calls + 1
            /\ ~ParseLevel(opts[fopt].Level).ok)
        => /\ res'.err = "invalid configuration"
           /\ res'.logger = <<>>
           /\ attempts' = <<>>
           /\ clients' = clients
           /\ opts' = opts]_vars

C10_Witness ==
    /\ lastOp = "CreateLogger"
    /\ ~ParseLevel(opts[fopt].Level).ok
    /\ IsOTLPEnabled(opts[fopt])
    /\ res.err = "invalid configuration" /\ res.logger = <<>>
    /\ attempts = <<>> /\ clients = 0

(***************************************************************************)
(* factory.LoggerFactory: NewLoggerFactory, GetOption, UpdateOption        *)
(***************************************************************************)

\* number of LogOption objects the application allocates
MaxOptions == 2

\* the options the application builds for its factories
FactoryOptions ==
    {o \in LogOptions :
        /\ o.Engine \in {"zap", "unsupported-engine"}
        /\ o.Level \in {"INFO", "INVALID"}
        /\ o.Format = "console" /\ o.OutputPaths = <<"stdout">>
        /\ Len(o.OTLP) = 0}

\* LoggerFactory.GetOption: the object the factory holds
GetOption == fopt

\* an UpdateOption that swaps the configuration in before looking at the error
updateOptionAssignFirst(held, new, v) ==
    [held |-> new,
     err |-> IF v.err # "nil" THEN "invalid configuration update" ELSE "nil"]

\* UpdateOption after its call of opt.Validate() returned v: the object the
\* factory holds afterwards and the error returned
updateOption(held, new, v) ==
    IF v.err # "nil"
    THEN [held |-> held, err |-> "invalid configuration update"]
    ELSE [held |-> new, err |-> "nil"]

\* opt := &LogOption{...}; f := NewLoggerFactory(opt), with the options the
\* factory claims are checked on
FactoryInit ==
    /\ \E o \in FactoryOptions : opts = <<o>> /\ raw = <<o>>
    /\ vres = <<"none">>
    /\ fopt = 1
    /\ lastOp = "NewLoggerFactory"
    /\ res = [logger |-> <<>>, err |-> "nil"]
    /\ attempts = <<>>
    /\ clients = 0
    /\ calls = 0
    /\ arg = 0
    /\ NoLoggers
    /\ NoGlobal
    /\ http = NoPost

\* opt := &LogOption{...}: the application allocates another option
NewLogOption ==
    /\ Len(opts) < MaxOptions
    /\ \E o \in FactoryOptions :
         /\ opts' = Append(opts, o)
         /\ raw' = Append(raw, o)
    /\ vres' = Append(vres, "none")
    /\ UNCHANGED <<fopt, lastOp, res, attempts, clients, calls, arg>>
    /\ UNCHANGED logVars
    /\ UNCHANGED <<globalVars, http>>

\* f = NewLoggerFactory(opt), opt being object i of the heap
NewLoggerFactory(i) ==
    /\ calls < MaxCalls
    /\ fopt' = i
    /\ arg' = i
    /\ res' = [logger |-> <<>>, err |-> "nil"]
    /\ lastOp' = "NewLoggerFactory"
    /\ calls' = calls + 1
    /\ UNCHANGED <<opts, raw, vres, attempts, clients>>
    /\ UNCHANGED logVars
    /\ UNCHANGED <<globalVars, http>>

\* f.UpdateOption(opt), opt being object i of the heap (possibly the held one)
UpdateOption(i) ==
    /\ calls < MaxCalls
    /\ LET v == ValidateOption(opts[i])
       IN  /\ opts' = [opts EXCEPT ![i] = v.opt]
           /\ vres' = [vres EXCEPT ![i] = IF v.err = "nil" THEN "ok" ELSE "err"]
           /\ fopt' = updateOption(fopt, i, v).held
           /\ res' = [logger |-> <<>>, err |-> updateOption(fopt, i, v).err]
    /\ arg' = i
    /\ lastOp' = "UpdateOption"
    /\ calls' = calls + 1
    /\ UNCHANGED <<raw, attempts, clients>>
    /\ UNCHANGED logVars
    /\ UNCHANGED <<globalVars, http>>

NewLoggerFactorySome == \E i \in DOMAIN opts : NewLoggerFactory(i)

UpdateOptionSome == \E i \in DOMAIN opts : UpdateOption(i)

FactoryNext ==
    \/ NewLogOption
    \/ NewLoggerFactorySome
    \/ UpdateOptionSome
    \/ ValidateSome
    \/ CreateLogger

FactorySpec == FactoryInit /\ [][FactoryNext]_vars

\* C11: UpdateOption is a transactional swap. In any sequence of
\* NewLoggerFactory, GetOption, CreateLogger and UpdateOption calls, an
\* UpdateOption(opt) whose opt fails validation returns an error and leaves
\* GetOption() the same object with the same field values as before the call;
\* an UpdateOption(opt) whose opt validates returns nil and makes GetOption()
\* return opt.
C11_UpdateOptionIsTransactional ==
    [][(lastOp' = "UpdateOption" /\ calls' = calls + 1)
        => IF ValidateOption(opts[arg']).err # "nil"
           THEN /\ res'.err # "nil"
                /\ GetOption' = GetOption
                /\ opts'[GetOption'] = opts[GetOption]
           ELSE /\ res'.err = "nil"
                /\ GetOption' = arg']_vars

C11_Witness ==
    /\ lastOp = "UpdateOption"
    /\ res.err # "nil"
    /\ arg # GetOption
    /\ ~ParseLevel(opts[arg].Level).ok
    /\ Len(attempts) >= 1
    /\ vres[GetOption] = "ok"

(***************************************************************************)
(* core.Logger as implemented by zap.ZapLogger and slog.SlogLogger         *)
(*                                                                         *)
(* A logger object is the record the constructor returns:                  *)
(*   level         the field l.level                                       *)
(*   sinkLevel     the level the engine's core / handler is enabled from   *)
(*   fields        the persistent key/value pairs attached by With         *)
(*   callerSkip    the field l.callerSkip                                  *)
(*   disableCaller config.DisableCaller of the zap core, disableCaller of  *)
(*                 the slog standardizedHandler                            *)
(*   otlpProvider  the export client the logger holds, 0 for nil           *)
(* A key/value argument list is a sequence k1, v1, k2, v2, ...; attached   *)
(* and written attributes are sequences of <<key, value>> pairs; the       *)
(* attribute map handed to the export client is a set of such pairs.       *)
(***************************************************************************)

\* number of logger objects the application holds (the root and its children)
MaxLoggers == 3

\* number of leveled calls one behaviour performs
MaxLogCalls == 1

\* the options the application passes to logger.New
LoggerOptions ==
    [Engine : {"zap", "slog"}, Level : {"debug", "INFO", "warn", "ERROR", "fatal"},
     Format : {"console"}, OutputPaths : {<<"stdout">>},
     OTLPEndpoint : FlatEndpoints, OTLP : {<<>>}]

\* the key/value argument lists of Debugw .. Fatalw: an even one with an alias
\* key, an odd one whose trailing key is an alias, an odd one of length one
CallKVs == {<<"trace.id", "t1">>, <<"user", "u1", "span.id">>, <<"msg">>}

\* the key/value argument lists of With and WithCtx
WithKVs == {<<"request_id", "r1">>, <<"ts">>}

\* the deltas passed to WithCallerSkip
Deltas == {1, 2}

\* what a call cannot decide itself: the sink rejects the write, the collector
\* rejects (or never answers) the export
CallEnvs == [sinkFails : BOOLEAN, exportFails : BOOLEAN]

\* the nil interface value paired with an odd trailing key
NilValue == "<nil>"

\* the order of core.Level: debug < info < warn < error < fatal
LevelRank(level) ==
    CASE level = "debug" -> 0
      [] level = "info" -> 1
      [] level = "warn" -> 2
      [] level = "error" -> 3
      [] level = "fatal" -> 4

\* fields.FieldMapper: the alias entries of MapCoreFields and MapTracingFields
FieldAliases ==
    [k \in {"ts", "msg", "trace.id", "span.id"} |->
        CASE k = "ts" -> "timestamp"
          [] k = "msg" -> "message"
          [] k = "trace.id" -> "trace_id"
          [] k = "span.id" -> "span_id"]

\* getStandardFieldName of ZapLogger, SlogLogger and standardizedHandler
getStandardFieldName(fieldName) ==
    IF fieldName \in DOMAIN FieldAliases THEN FieldAliases[fieldName] ELSE fieldName

\* a standardizeFields that drops an odd trailing key
RECURSIVE standardizeFieldsDroppingOdd(_)
standardizeFieldsDroppingOdd(kvs) ==
    IF Len(kvs) < 2 THEN <<>>
    ELSE << <<getStandardFieldName(kvs[1]), kvs[2]>> >>
             \o standardizeFieldsDroppingOdd(SubSeq(kvs, 3, Len(kvs)))

\* ZapLogger.standardizeFields
RECURSIVE standardizeFields(_)
standardizeFields(kvs) ==
    IF Len(kvs) = 0 THEN <<>>
    ELSE IF Len(kvs) = 1
    THEN << <<getStandardFieldName(kvs[1]), NilValue>> >>
    ELSE << <<getStandardFieldName(kvs[1]), kvs[2]>> >>
             \o standardizeFields(SubSeq(kvs, 3, Len(kvs)))

\* SlogLogger.convertToSlogAttrs: the odd trailing key is kept as given
RECURSIVE convertToSlogAttrs(_)
convertToSlogAttrs(kvs) ==
    IF Len(kvs) = 0 THEN <<>>
    ELSE IF Len(kvs) = 1
    THEN << <<kvs[1], NilValue>> >>
    ELSE << <<getStandardFieldName(kvs[1]), kvs[2]>> >>
             \o convertToSlogAttrs(SubSeq(kvs, 3, Len(kvs)))

\* standardizedHandler.Handle: every attribute of the record under its
\* standardized key
Handle(attrs) ==
    [k \in DOMAIN attrs |-> <<getStandardFieldName(attrs[k][1]), attrs[k][2]>>]

\* standardizedHandler.WithAttrs
WithAttrs(attrs) ==
    [k \in DOMAIN attrs |-> <<getStandardFieldName(attrs[k][1]), attrs[k][2]>>]

\* attributes[key] = value on a Go map
MapPut(m, key, value) == {p \in m : p[1] # key} \cup {<<key, value>>}

\* the loop of sendToOTLP: the pairs of kvs, under standardized keys, put into
\* the map m; it breaks at an odd trailing key
RECURSIVE collectAttributes(_, _)
collectAttributes(kvs, m) ==
    IF Len(kvs) < 2 THEN m
    ELSE collectAttributes(SubSeq(kvs, 3, Len(kvs)),
                           MapPut(m, getStandardFieldName(kvs[1]), kvs[2]))

\* a sendToOTLP that sends the record again when the export failed
sendToOTLPWithRetry(l, sev, kvs, env) ==
    IF l.otlpProvider = 0 THEN <<>>
    ELSE IF env.exportFails
    THEN <<[client |-> l.otlpProvider, level |-> sev,
            attributes |-> collectAttributes(kvs, {})],
           [client |-> l.otlpProvider, level |-> sev,
            attributes |-> collectAttributes(kvs, {})]>>
    ELSE <<[client |-> l.otlpProvider, level |-> sev,
            attributes |-> collectAttributes(kvs, {})]>>

\* sendToOTLP of ZapLogger and SlogLogger: the SendLogRecord invocations it
\* makes; an export error is printed and dropped
sendToOTLP(l, sev, kvs, env) ==
    IF l.otlpProvider = 0 THEN <<>>
    ELSE <<[client |-> l.otlpProvider, level |-> sev,
            attributes |-> collectAttributes(kvs, {})]>>

\* the zapcore.Level the sugar method of a severity logs at
zapCallLevel(sev) ==
    CASE sev = "debug" -> -1
      [] sev = "info" -> 0
      [] sev = "warn" -> 1
      [] sev = "error" -> 2
      [] sev = "fatal" -> 5

\* the slog.Level the slog method of a severity logs at: Fatal, Fatalf and
\* Fatalw log through l.logger.Error
slogCallLevel(sev) ==
    CASE sev = "debug" -> -4
      [] sev = "info" -> 0
      [] sev = "warn" -> 4
      [] sev = "error" -> 8
      [] sev = "fatal" -> 8

\* number of stack frames from the application's call site outwards (main.main,
\* runtime.main, runtime.goexit): a caller is found while callerSkip is below it
StackDepth == 3

\* the variadic argument lists of Debug .. Fatal
CallArgs == {<<"a">>, <<"a", "b">>}

\* the keys of timestamp, level and message in zap's encoder configuration:
\* fields.TimestampField, fields.LevelField, fields.MessageField
ZapBuiltinKeys == {"timestamp", "level", "message"}

\* the keys slog's handlers give time, level and message when no ReplaceAttr
\* is installed: slog.TimeKey, slog.LevelKey, slog.MessageKey
SlogBuiltinKeys == {"time", "level", "msg"}

\* zapcore.LowercaseLevelEncoder
zapLevelText(level) ==
    CASE level = -1 -> "debug"
      [] level = 0 -> "info"
      [] level = 1 -> "warn"
      [] level = 2 -> "error"
      [] level = 5 -> "fatal"

\* slog.Level.String, which the handlers write as the level
slogLevelText(level) ==
    CASE level = -4 -> "DEBUG"
      [] level = 0 -> "INFO"
      [] level = 4 -> "WARN"
      [] level = 8 -> "ERROR"

\* fmt.Sprint on string operands, as sugar.Debug .. Fatal build the message: a
\* message is the sequence of its pieces, and no space is added between strings
Sprint(args) == args

\* slog.formatArgs: the operands joined by single spaces
RECURSIVE formatArgs(_)
formatArgs(args) ==
    IF Len(args) = 0 THEN <<>>
    ELSE IF Len(args) = 1 THEN <<args[1]>>
    ELSE <<args[1], " ">> \o formatArgs(Tail(args))

\* fmt.Sprintf(template, args...) with one verb per operand
Sprintf(args) == <<"template">> \o args

\* the message of a zap call
zapMessage(conv, args) ==
    CASE conv = "args" -> Sprint(args)
      [] conv = "format" -> Sprintf(args)
      [] conv = "kv" -> <<"msg">>

\* the message of a slog call
slogMessage(conv, args) ==
    CASE conv = "args" -> formatArgs(args)
      [] conv = "format" -> Sprintf(args)
      [] conv = "kv" -> <<"msg">>

\* zap annotates the caller unless config.DisableCaller, when the frame exists
zapCaller(l) == ~l.disableCaller /\ l.callerSkip < StackDepth

\* SlogLogger.getCaller() != "": the frame exists; disableCaller is not read
slogCaller(l) == l.callerSkip < StackDepth

\* the events of the last step of a call: the process ends or the call returns
tail(exits) == IF exits THEN <<"exit">> ELSE <<"return">>

\* a zap Fatal that returns to its caller when the sink rejected the write
zapTerminatesUnlessSinkFails(sev, env) == sev = "fatal" /\ ~env.sinkFails

\* sugar.Fatal, sugar.Fatalf, sugar.Fatalw end the process after the write,
\* whatever became of the write
zapTerminates(sev, env) == sev = "fatal"

\* os.Exit(1) at the end of SlogLogger.Fatal, Fatalf, Fatalw
slogTerminates(sev, env) == sev = "fatal"

\* ZapLogger.Debug .. Fatalw on logger l (object i of the heap): conv is "args"
\* (Debug .. Fatal), "format" (Debugf .. Fatalf) or "kv" (Debugw .. Fatalw),
\* and kvs is the variadic argument list of the call.
\* The sugar call writes when the core is enabled and, for Fatal, ends the
\* process; sendToOTLP follows the sugar call in the kv methods only
zapLeveled(i, l, sev, conv, kvs, env) ==
    LET on == zapCallLevel(sev) >= l.sinkLevel
        out == IF conv = "kv" /\ ~zapTerminates(sev, env)
               THEN sendToOTLP(l, sev, kvs, env) ELSE <<>>
    IN  [op |-> "log", logger |-> i, sev |-> sev, conv |-> conv, kvs |-> kvs,
         written |-> IF on
                     THEN <<[engine |-> "zap", level |-> zapCallLevel(sev),
                             text |-> zapLevelText(zapCallLevel(sev)),
                             msg |-> zapMessage(conv, kvs),
                             builtin |-> ZapBuiltinKeys,
                             caller |-> zapCaller(l),
                             attrs |-> l.fields \o
                                 (IF conv = "kv" THEN standardizeFields(kvs)
                                  ELSE <<>>)]>>
                     ELSE <<>>,
         sinkFailed |-> on /\ env.sinkFails,
         sent |-> out,
         exportFailed |-> Len(out) > 0 /\ env.exportFails,
         events |-> (IF on THEN <<"write">> ELSE <<>>)
                       \o [k \in DOMAIN out |-> "export"]
                       \o tail(zapTerminates(sev, env))]

\* SlogLogger.Debug .. Fatalw on logger l (object i of the heap): the slog call
\* writes when the handler is enabled, the kv methods then call sendToOTLP,
\* and Fatal, Fatalf, Fatalw end with os.Exit(1)
slogLeveled(i, l, sev, conv, kvs, env) ==
    LET on == slogCallLevel(sev) >= l.sinkLevel
        out == IF conv = "kv" THEN sendToOTLP(l, sev, kvs, env) ELSE <<>>
    IN  [op |-> "log", logger |-> i, sev |-> sev, conv |-> conv, kvs |-> kvs,
         written |-> IF on
                     THEN <<[engine |-> "slog", level |-> slogCallLevel(sev),
                             text |-> slogLevelText(slogCallLevel(sev)),
                             msg |-> slogMessage(conv, kvs),
                             builtin |-> SlogBuiltinKeys,
                             caller |-> slogCaller(l),
                             attrs |-> l.fields \o
                                 (IF conv = "kv" THEN Handle(convertToSlogAttrs(kvs))
                                  ELSE <<>>)]>>
                     ELSE <<>>,
         sinkFailed |-> on /\ env.sinkFails,
         sent |-> out,
         exportFailed |-> Len(out) > 0 /\ env.exportFails,
         events |-> (IF on THEN <<"write">> ELSE <<>>)
                       \o [k \in DOMAIN out |-> "export"]
                       \o tail(slogTerminates(sev, env))]

\* the method of the core.Logger interface, dispatched on the engine
Leveled(i, l, sev, conv, kvs, env) ==
    IF l.engine = "zap" THEN zapLeveled(i, l, sev, conv, kvs, env)
    ELSE slogLeveled(i, l, sev, conv, kvs, env)

\* ZapLogger.With: the child holds the parent's fields and the new ones
zapWith(l, kvs) == [l EXCEPT !.fields = @ \o standardizeFields(kvs)]

\* ZapLogger.WithCtx
zapWithCtx(l, kvs) == zapWith(l, kvs)

\* SlogLogger.With
slogWith(l, kvs) == [l EXCEPT !.fields = @ \o WithAttrs(convertToSlogAttrs(kvs))]

\* SlogLogger.WithCtx
slogWithCtx(l, kvs) == [l EXCEPT !.fields = @ \o WithAttrs(convertToSlogAttrs(kvs))]

\* a WithCallerSkip that sets the counter instead of adding to it
zapWithCallerSkipAbsolute(l, skip) == [l EXCEPT !.callerSkip = skip]

\* ZapLogger.WithCallerSkip
zapWithCallerSkip(l, skip) == [l EXCEPT !.callerSkip = @ + skip]

\* SlogLogger.WithCallerSkip
slogWithCallerSkip(l, skip) == [l EXCEPT !.callerSkip = @ + skip]

\* l, err := logger.New(opt): NewLoggerFactory(opt).CreateLogger() returned
\* the root logger
LogInit ==
    /\ \E o \in LoggerOptions, e \in Envs :
         LET c == CreateLoggerCall(o, e, 0)
         IN  /\ c.err = "nil"
             /\ raw = <<o>>
             /\ opts = <<c.opt>>
             /\ res = [logger |-> c.logger, err |-> c.err]
             /\ attempts = c.attempts
             /\ clients = c.opened
             /\ loggers = c.logger
    /\ vres = <<"ok">>
    /\ fopt = 1
    /\ lastOp = "CreateLogger"
    /\ calls = 0
    /\ arg = 0
    /\ origin = <<[parent |-> 0, op |-> "New", skip |-> 0, kvs |-> <<>>, set |-> 0]>>
    /\ last = NoCall
    /\ exited = FALSE
    /\ NoGlobal
    /\ http = NoPost

\* the process is alive and the behaviour has leveled calls left
CanCall == ~exited /\ calls < MaxLogCalls

\* one leveled call of convention conv with the variadic argument list kvs
LogCall(conv, kvs) ==
    /\ calls' = calls + 1
    /\ \E i \in DOMAIN loggers, sev \in LevelNames, env \in CallEnvs :
         LET r == Leveled(i, loggers[i], sev, conv, kvs, env)
         IN  /\ last' = r
             /\ exited' = (r.events[Len(r.events)] = "exit")
    /\ UNCHANGED <<loggers, origin>>
    /\ UNCHANGED <<opts, raw, vres, fopt, lastOp, res, attempts, clients, arg>>
    /\ UNCHANGED <<globalVars, http>>

\* l.Debug(args...) .. l.Fatal(args...)
Log ==
    /\ CanCall
    /\ \E args \in CallArgs : LogCall("args", args)

\* l.Debugf(template, args...) .. l.Fatalf(template, args...)
Logf ==
    /\ CanCall
    /\ LogCall("format", <<>>)

\* l.Debugw(msg, keysAndValues...) .. l.Fatalw(msg, keysAndValues...)
Logw ==
    /\ CanCall
    /\ \E kvs \in CallKVs : LogCall("kv", kvs)

\* the application keeps the child logger c, made from object i by op
NewChild(i, op, skip, kvs, c) ==
    /\ ~exited
    /\ Len(loggers) < MaxLoggers
    /\ loggers' = Append(loggers, c)
    /\ origin' = Append(origin, [parent |-> i, op |-> op, skip |-> skip, kvs |-> kvs,
                                  set |-> 0])
    /\ last' = [NoCall EXCEPT !.op = op, !.logger = Len(loggers) + 1, !.kvs = kvs]
    /\ UNCHANGED exited
    /\ UNCHANGED factoryVars
    /\ UNCHANGED <<globalVars, http>>

\* child := l.With(keysAndValues...)
With ==
    \E i \in DOMAIN loggers, kvs \in WithKVs :
        NewChild(i, "With", 0, kvs,
                 IF loggers[i].engine = "zap" THEN zapWith(loggers[i], kvs)
                 ELSE slogWith(loggers[i], kvs))

\* child := l.WithCtx(ctx, keysAndValues...)
WithCtx ==
    \E i \in DOMAIN loggers, kvs \in WithKVs :
        NewChild(i, "WithCtx", 0, kvs,
                 IF loggers[i].engine = "zap" THEN zapWithCtx(loggers[i], kvs)
                 ELSE slogWithCtx(loggers[i], kvs))

\* child := l.WithCallerSkip(skip)
WithCallerSkip ==
    \E i \in DOMAIN loggers, skip \in Deltas :
        NewChild(i, "WithCallerSkip", skip, <<>>,
                 IF loggers[i].engine = "zap" THEN zapWithCallerSkip(loggers[i], skip)
                 ELSE slogWithCallerSkip(loggers[i], skip))

\* number of SetLevel calls one behaviour makes
MaxSetLevels == 1

\* the options the application passes to logger.New where the claims are about
\* children and SetLevel: export is active
LevelOptions ==
    [Engine : {"zap", "slog"}, Level : {"INFO"},
     Format : {"json"}, OutputPaths : {<<"stdout">>},
     OTLPEndpoint : {"http://flattened:4317"}, OTLP : {<<>>}]

\* the levels passed to SetLevel: one below and one above the constructed one
SetLevels == {"debug", "error"}

\* the options the application passes to logger.New where the claims are about
\* the content of the written record: export is disabled
RecordOptions ==
    [Engine : {"zap", "slog"}, Level : {"debug", "fatal"},
     Format : {"json"}, OutputPaths : {<<"stdout">>},
     OTLPEndpoint : {""}, OTLP : {<<>>}, DisableCaller : BOOLEAN]

\* ZapLogger.SetLevel: l.level = level; the zap core keeps its level
zapSetLevel(l, level) == [l EXCEPT !.level = level]

\* SlogLogger.SetLevel: l.level = level; the handler keeps its level
slogSetLevel(l, level) == [l EXCEPT !.level = level]

\* the number of SetLevel calls made on the loggers 1 .. k
RECURSIVE SetLevelCalls(_)
SetLevelCalls(k) == IF k = 0 THEN 0 ELSE origin[k].set + SetLevelCalls(k - 1)

\* logger.New(o) returned the root logger and no error
NewRoot(o) ==
    \E e \in Envs :
        LET c == CreateLoggerCall(o, e, 0)
        IN  /\ c.err = "nil"
            /\ raw = <<o>>
            /\ opts = <<c.opt>>
            /\ res = [logger |-> c.logger, err |-> c.err]
            /\ attempts = c.attempts
            /\ clients = c.opened
            /\ loggers = c.logger

\* the state in which the application holds nothing but its root logger
RootOnly ==
    /\ vres = <<"ok">>
    /\ fopt = 1
    /\ lastOp = "CreateLogger"
    /\ calls = 0
    /\ arg = 0
    /\ origin = <<[parent |-> 0, op |-> "New", skip |-> 0, kvs |-> <<>>, set |-> 0]>>
    /\ last = NoCall
    /\ exited = FALSE
    /\ NoGlobal
    /\ http = NoPost

\* l, err := logger.New(opt) with opt drawn from LevelOptions
LevelInit ==
    /\ \E o \in LevelOptions : NewRoot(o)
    /\ RootOnly

\* l, err := logger.New(opt) with opt drawn from RecordOptions
RecordInit ==
    /\ \E o \in RecordOptions : NewRoot(o)
    /\ RootOnly

\* a SetLevel that reaches every logger of the family
SetLevelOnFamily ==
    /\ ~exited
    /\ SetLevelCalls(Len(loggers)) < MaxSetLevels
    /\ \E i \in DOMAIN loggers, level \in SetLevels :
         /\ loggers' = [k \in DOMAIN loggers |-> [loggers[k] EXCEPT !.level = level]]
         /\ origin' = [origin EXCEPT ![i].set = @ + 1]
         /\ last' = [NoCall EXCEPT !.op = "SetLevel", !.logger = i, !.sev = level]
    /\ UNCHANGED exited
    /\ UNCHANGED factoryVars
    /\ UNCHANGED <<globalVars, http>>

\* l.SetLevel(level)
SetLevel ==
    /\ ~exited
    /\ SetLevelCalls(Len(loggers)) < MaxSetLevels
    /\ \E i \in DOMAIN loggers, level \in SetLevels :
         /\ loggers' = [loggers EXCEPT ![i] =
                           IF loggers[i].engine = "zap"
                           THEN zapSetLevel(loggers[i], level)
                           ELSE slogSetLevel(loggers[i], level)]
         /\ origin' = [origin EXCEPT ![i].set = @ + 1]
         /\ last' = [NoCall EXCEPT !.op = "SetLevel", !.logger = i, !.sev = level]
    /\ UNCHANGED exited
    /\ UNCHANGED factoryVars
    /\ UNCHANGED <<globalVars, http>>

LogNext ==
    \/ Log
    \/ Logf
    \/ Logw
    \/ With
    \/ WithCtx
    \/ WithCallerSkip

LogSpec == LogInit /\ [][LogNext]_vars

LevelNext ==
    \/ Log
    \/ Logf
    \/ Logw
    \/ With
    \/ WithCtx
    \/ WithCallerSkip
    \/ SetLevel

LevelSpec == LevelInit /\ [][LevelNext]_vars

RecordSpec == RecordInit /\ [][LogNext]_vars

(***************************************************************************)
(* Properties of the leveled calls                                         *)
(***************************************************************************)

\* the last operation was a leveled call
IsLog == last.op = "log"

\* the logger the last operation was called on
Callee == loggers[last.logger]

\* export is active on logger l: it holds an export client
ExportActive(l) == l.otlpProvider # 0

\* the set of the elements of a sequence
Range(seq) == {seq[k] : k \in DOMAIN seq}

\* the pairs a key/value list stands for: every key under its standardized
\* name, in order, an odd trailing key paired with the empty value
ExpectedPairs(kvs) ==
    [j \in 1..((Len(kvs) + 1) \div 2) |->
        <<getStandardFieldName(kvs[2 * j - 1]),
          IF 2 * j <= Len(kvs) THEN kvs[2 * j] ELSE NilValue>>]

\* C12 as stated: for every configured minimum level M, every engine and every
\* leveled call of severity S in any calling convention, the call writes a
\* local record if and only if S >= M; with M = fatal an Error call writes
\* nothing.
C12_WritesIffAtOrAboveMinimum ==
    IsLog => (Len(last.written) = 1
                 <=> LevelRank(last.sev) >= LevelRank(Callee.level))

\* C13 as stated: with export active, a call whose severity is below the
\* logger's minimum level makes no call into the export client, on both
\* engines and in every calling convention.
C13_NoExportBelowMinimum ==
    (IsLog /\ ExportActive(Callee)
           /\ LevelRank(last.sev) < LevelRank(Callee.level))
        => Len(last.sent) = 0

\* C14 as stated: with export active, every call that is emitted locally hands
\* its record to the export client exactly once, in each of the three calling
\* conventions and on both engines.
C14_EmittedIsExportedOnce ==
    (IsLog /\ ExportActive(Callee) /\ Len(last.written) = 1)
        => Len(last.sent) = 1

\* C15 as stated: with export active, the attribute set handed to the export
\* client for a key/value call equals the user-attribute set of the locally
\* written record: the persistent fields of the logger and its ancestors and
\* every call-site key under its standardized name, an odd trailing key
\* included.
C15_ExportedAttributesEqualLocal ==
    (IsLog /\ last.conv = "kv" /\ ExportActive(Callee)
           /\ Len(last.written) = 1 /\ Len(last.sent) = 1)
        => last.sent[1].attributes = Range(last.written[1].attrs)

\* C16: for every key/value list of odd length passed to Debugw .. Fatalw or
\* to With / WithCtx, on both engines, the final key is in the locally written
\* record (for With / WithCtx: among the child's persistent fields, which head
\* every record the child writes) under its standardized name, paired with the
\* empty value, after the preceding pairs in their order; the call ends as
\* every leveled call does, by returning or, for Fatal, by ending the process.
C16_OddTrailingKeyKept ==
    /\ (IsLog /\ last.conv = "kv" /\ Len(last.written) = 1)
          => /\ last.written[1].attrs = Callee.fields \o ExpectedPairs(last.kvs)
             /\ last.events[Len(last.events)] \in {"return", "exit"}
    /\ \A i \in DOMAIN loggers :
          origin[i].op \in {"With", "WithCtx"}
              => loggers[i].fields =
                     loggers[origin[i].parent].fields \o ExpectedPairs(origin[i].kvs)

C16_Witness ==
    /\ IsLog /\ last.conv = "kv" /\ Callee.engine = "slog"
    /\ origin[last.logger].op = "WithCtx" /\ origin[last.logger].kvs = <<"ts">>
    /\ last.kvs = <<"user", "u1", "span.id">>
    /\ Len(last.written) = 1
    /\ last.written[1].attrs =
          << <<"timestamp", NilValue>>, <<"user", "u1">>, <<"span_id", NilValue>> >>

\* C17 as stated: for a Fatal-severity call with export active, on both
\* engines, the call writes locally, then attempts the export, then ends the
\* process; the process never ends before the export attempt.
C17_FatalWritesExportsThenExits ==
    (IsLog /\ last.sev = "fatal" /\ ExportActive(Callee))
        => last.events = <<"write", "export", "exit">>

\* C18: every Fatal, Fatalf and Fatalw call on either engine ends the process,
\* whether the sink write succeeds or fails and whether the export succeeds,
\* fails or is inactive; no Fatal call returns.
C18_FatalAlwaysTerminates ==
    (IsLog /\ last.sev = "fatal")
        => /\ exited
           /\ last.events[Len(last.events)] = "exit"
           /\ "return" \notin Range(last.events)

C18_Witness ==
    /\ IsLog /\ last.sev = "fatal" /\ last.conv = "kv"
    /\ Callee.engine = "slog"
    /\ last.sinkFailed /\ last.exportFailed
    /\ exited

\* C19: for every non-fatal call with export active whose export fails, the
\* call returns normally, the export client was invoked once and not again,
\* and the local write is the one the same call makes when the export
\* succeeds, made before the export.
C19_ExportFailureIsSwallowed ==
    (IsLog /\ last.sev # "fatal" /\ ExportActive(Callee) /\ last.exportFailed)
        => /\ ~exited
           /\ last.events[Len(last.events)] = "return"
           /\ Len(last.sent) = 1
           /\ last.written =
                 Leveled(last.logger, Callee, last.sev, last.conv, last.kvs,
                         [sinkFails |-> last.sinkFailed, exportFails |-> FALSE]).written
           /\ last.events \in {<<"write", "export", "return">>, <<"export", "return">>}

C19_Witness ==
    /\ IsLog /\ last.sev = "error" /\ last.conv = "kv"
    /\ ExportActive(Callee) /\ last.exportFailed
    /\ Len(last.written) = 1
    /\ last.events = <<"write", "export", "return">>
    /\ ~exited

(***************************************************************************)
(* Properties of the child loggers                                         *)
(***************************************************************************)

\* the sum of the deltas passed to WithCallerSkip on the way from the root
\* logger to object i
RECURSIVE SkipSum(_)
SkipSum(i) ==
    IF origin[i].parent = 0 THEN 0
    ELSE (IF origin[i].op = "WithCallerSkip" THEN origin[i].skip ELSE 0)
             + SkipSum(origin[i].parent)

\* C20: the skip counter of a freshly constructed logger is 0; along every
\* chain of child creations the child's counter is the ancestor's plus the sum
\* of the deltas passed to WithCallerSkip; With and WithCtx leave it unchanged.
C20_CallerSkipIsAdditive ==
    \A i \in DOMAIN loggers :
        /\ loggers[i].callerSkip = SkipSum(i)
        /\ origin[i].parent = 0 => loggers[i].callerSkip = 0
        /\ origin[i].op \in {"With", "WithCtx"}
              => loggers[i].callerSkip = loggers[origin[i].parent].callerSkip
        /\ origin[i].op = "WithCallerSkip"
              => loggers[i].callerSkip =
                     loggers[origin[i].parent].callerSkip + origin[i].skip

C20_Witness ==
    \E i \in DOMAIN loggers :
        /\ origin[i].op = "WithCallerSkip" /\ origin[i].skip = 2
        /\ origin[i].parent # 0
        /\ origin[origin[i].parent].op = "WithCallerSkip"
        /\ origin[origin[i].parent].skip = 1
        /\ loggers[i].engine = "zap"
        /\ loggers[i].callerSkip = 3

(***************************************************************************)
(* Repeated validation, the second resolver, the factory's engine selector *)
(***************************************************************************)

\* C26 as stated: when Validate() returns an error for an option whose level
\* is invalid and whose engine is unrecognised, the option has been corrected:
\* after the failed call the engine field reads "slog".
C26_FailedValidateCorrectsEngine ==
    \A i \in DOMAIN opts :
        (vres[i] = "err" /\ ~ParseLevel(raw[i].Level).ok
                         /\ raw[i].Engine \notin {"zap", "slog"})
            => opts[i].Engine = "slog"

\* C28: Validate() is idempotent. Once an option has been validated
\* successfully, every later validation of it (by Validate, or by CreateLogger
\* and the engine constructors it calls) succeeds again and leaves the option
\* as the first call left it: engine, enabled tri-state, nested endpoint,
\* protocol and timeout, and therefore IsOTLPEnabled(), do not change.
C28_ValidateIsIdempotent ==
    [][\A i \in DOMAIN opts :
          (vres[i] = "ok" /\ calls' = calls + 1)
              => /\ vres'[i] = "ok"
                 /\ ValidateOption(opts[i]).err = "nil"
                 /\ opts'[i] = opts[i]
                 /\ IsOTLPEnabled(opts'[i]) = IsOTLPEnabled(opts[i])]_vars

C28_Witness ==
    /\ calls = 2 /\ lastOp = "Validate" /\ Resolved(1)
    /\ Len(raw[1].OTLP) = 0 /\ raw[1].OTLPEndpoint # ""
    /\ raw[1].Engine = "unsupported-engine"
    /\ IsOTLPEnabled(opts[1])
    /\ Nested(opts[1]).Timeout = DefaultTimeout

(***************************************************************************)
(* config.Config: the second resolver. A Config has the fields of a        *)
(* LogOption and an OTLPConfig those of an OTLPOption.                     *)
(***************************************************************************)

\* Config.resolveOTLPConfig: the flattened endpoint fills the nested one only
\* when the nested one is empty
configResolveOTLPConfig(c) ==
    LET n0 == IF Len(c.OTLP) = 0 THEN EmptyOTLP ELSE c.OTLP[1]
    IN  IF c.OTLPEndpoint # ""
        THEN IF n0.Enabled = "false"
             THEN [c EXCEPT !.OTLP = <<n0>>]
             ELSE [c EXCEPT !.OTLP = <<ApplyDefaults(
                     [n0 EXCEPT !.Enabled = IF @ = "unset" THEN "true" ELSE @,
                                !.Endpoint = IF @ = "" THEN c.OTLPEndpoint ELSE @])>>]
        ELSE [c EXCEPT !.OTLP = <<ApplyDefaults(
                IF n0.Enabled = "unset" /\ n0.Endpoint # ""
                THEN [n0 EXCEPT !.Enabled = "true"] ELSE n0)>>]

\* Config.Validate: the configuration it leaves behind and the error it returns
ConfigValidate(c) ==
    IF ~ParseLevel(c.Level).ok
    THEN [opt |-> c, err |-> "invalid level"]
    ELSE LET r == configResolveOTLPConfig(c)
         IN  [opt |-> IF r.Engine # "zap" /\ r.Engine # "slog"
                      THEN [r EXCEPT !.Engine = DefaultEngine] ELSE r,
              err |-> "nil"]

\* Config.IsOTLPEnabled
ConfigIsOTLPEnabled(c) ==
    /\ Len(c.OTLP) > 0
    /\ c.OTLP[1].Enabled = "true"
    /\ c.OTLP[1].Endpoint # ""

\* C29 as stated: the two resolvers agree. For every combination of level,
\* engine, flattened endpoint, nested enabled tri-state, nested endpoint,
\* protocol and timeout, Config.Validate and LogOption.Validate return the same
\* error outcome and leave the same resolved state: the same IsOTLPEnabled(),
\* enabled flag, nested endpoint, protocol, timeout and engine.
C29_ResolversAgree ==
    \A i \in DOMAIN opts :
        vres[i] # "none" =>
            /\ (ConfigValidate(raw[i]).err = "nil") <=> (vres[i] = "ok")
            /\ ConfigIsOTLPEnabled(ConfigValidate(raw[i]).opt) = IsOTLPEnabled(opts[i])
            /\ ConfigValidate(raw[i]).opt.OTLP = opts[i].OTLP
            /\ ConfigValidate(raw[i]).opt.Engine = opts[i].Engine

\* C30 as stated: after every successful CreateLogger the engine selector
\* held by the factory, GetOption().Engine, names the engine that produced the
\* returned logger, also when the logger came from the fallback engine.
C30_HeldEngineNamesProducer ==
    (lastOp = "CreateLogger" /\ res.err = "nil")
        => opts[GetOption].Engine = res.logger[1].engine

(***************************************************************************)
(* otlp.OTLPClient: Export, exportGRPC, exportHTTP                         *)
(*                                                                         *)
(* An endpoint string is the sequence of its pieces, cut so that the first *)
(* piece is "http" exactly when the string begins with "http", and "://"   *)
(* is a piece exactly where a scheme ends.                                 *)
(***************************************************************************)

\* number of export requests one behaviour makes
MaxPosts == 3

\* endpoints given to the client: a bare host:port, URLs with the schemes
\* http and https, a URL with another scheme, and a bare host:port whose host
\* name begins with "http"
ExportEndpoints ==
    {<<"collector:4318">>,
     <<"http", "://", "collector:4318", "/v1/logs">>,
     <<"http", "s", "://", "collector:4318", "/otlp">>,
     <<"otel", "://", "collector:4318">>,
     <<"http", "bin.local:4318">>}

\* the status codes the collector answers with
StatusCodes == {199, 200, 204, 299, 300, 404, 503}

\* the endpoint contains a scheme
HasScheme(endpoint) == \E k \in DOMAIN endpoint : endpoint[k] = "://"

\* strings.HasPrefix(c.endpoint, "http")
HasPrefixHTTP(endpoint) == Len(endpoint) > 0 /\ endpoint[1] = "http"

\* the URL exportHTTP posts to
exportURL(endpoint) ==
    IF HasPrefixHTTP(endpoint) THEN endpoint
    ELSE <<"http", "://">> \o endpoint \o <<"/v1/logs">>

\* the error exportHTTP returns: transport is TRUE when httpClient.Do failed
exportHTTPError(transport, status) ==
    IF transport THEN "failed to send HTTP request"
    ELSE IF status < 200 \/ status >= 300 THEN "HTTP request failed with status"
    ELSE "nil"

\* no factory has been used
NoFactory ==
    /\ opts = <<>> /\ raw = <<>> /\ vres = <<>>
    /\ fopt = 0 /\ arg = 0
    /\ lastOp = "none"
    /\ res = [logger |-> <<>>, err |-> "nil"]
    /\ attempts = <<>>
    /\ calls = 0

\* client, err := NewOTLPClient(opt) returned a client for the endpoint
ExportInit ==
    /\ NoFactory
    /\ clients = 1
    /\ NoLoggers
    /\ NoGlobal
    /\ \E e \in ExportEndpoints, p \in {"grpc", "http"} :
         http = [NoPost EXCEPT !.endpoint = e, !.protocol = p]

\* c.Export(ctx, req) on a client whose protocol is not "grpc": exportHTTP
ExportHTTP ==
    /\ http.protocol # "grpc"
    /\ http.posts < MaxPosts
    /\ \E transport \in BOOLEAN, status \in StatusCodes :
         http' = [http EXCEPT !.url = exportURL(http.endpoint),
                              !.status = IF transport THEN 0 ELSE status,
                              !.err = exportHTTPError(transport, status),
                              !.posts = @ + 1]
    /\ UNCHANGED <<factoryVars, logVars, globalVars>>

\* c.Export(ctx, req) on a client whose protocol is "grpc": exportGRPC, on the
\* channel opened at construction
ExportGRPC ==
    /\ http.protocol = "grpc"
    /\ http.posts < MaxPosts
    /\ \E fails \in BOOLEAN :
         http' = [http EXCEPT !.err = IF fails THEN "rpc error" ELSE "nil",
                              !.posts = @ + 1]
    /\ UNCHANGED <<factoryVars, logVars, globalVars>>

ExportNext ==
    \/ ExportHTTP
    \/ ExportGRPC

ExportSpec == ExportInit /\ [][ExportNext]_vars

\* a request has been posted over HTTP
Posted == http.posts > 0 /\ http.protocol = "http"

\* C27 as stated: the HTTP transport chooses its URL from the endpoint alone.
\* For a bare host:port (no scheme) the POST goes to http://<endpoint>/v1/logs;
\* the POST goes to the literal endpoint exactly when the endpoint contains a
\* scheme; an export is successful only for a 2xx status.
C27_URLFromEndpointAlone ==
    Posted =>
        /\ ~HasScheme(http.endpoint)
              => http.url = <<"http", "://">> \o http.endpoint \o <<"/v1/logs">>
        /\ (http.url = http.endpoint) <=> HasScheme(http.endpoint)
        /\ http.err = "nil" => (http.status >= 200 /\ http.status < 300)

(***************************************************************************)
(* logger.go: the package-level logger, SetGlobal and Global               *)
(*                                                                         *)
(* global is a plain package variable: Global() reads it, creates and      *)
(* stores the default logger when it read nil, and reads it again for its  *)
(* return value. No lock or sync.Once orders these accesses, so each is a  *)
(* step of its own and the steps of different goroutines interleave.       *)
(* A logger instance is [kind, id]; global and the local variables hold    *)
(* <<>> for nil or <<instance>>.                                           *)
(***************************************************************************)

\* number of Global() / SetGlobal calls one goroutine makes
MaxGlobalCalls == 2

\* option.DefaultLogOption()
DefaultLogOption ==
    [Engine |-> "slog", Level |-> "INFO", Format |-> "json",
     OutputPaths |-> <<"stdout">>, OTLPEndpoint |-> "",
     OTLP |-> <<[Enabled |-> "unset", Endpoint |-> "", Protocol |-> DefaultProtocol,
                 Timeout |-> DefaultTimeout]>>]

\* NewWithDefaults(): New(option.DefaultLogOption())
NewWithDefaults(e) == CreateLoggerCall(DefaultLogOption, e, 0)

\* the loggers the application passes to SetGlobal
UserLoggers == {[kind |-> "user", id |-> 1], [kind |-> "user", id |-> 2]}

\* the process starts: global is nil and every goroutine is outside logger.go
GlobalInit ==
    /\ NoFactory
    /\ clients = 0
    /\ NoLoggers
    /\ NoGlobal
    /\ http = NoPost

\* goroutine t has calls left and is outside logger.go
CanEnter(t) == threads[t].pc = "idle" /\ threads[t].n < MaxGlobalCalls

\* Global(), "if global == nil": goroutine t enters and reads global
GlobalCheck(t) ==
    /\ CanEnter(t)
    /\ threads' = [threads EXCEPT ![t].pc =
                      IF global = <<>> THEN "create" ELSE "return"]
    /\ UNCHANGED <<global, created, sets>>
    /\ UNCHANGED <<factoryVars, logVars, http>>

\* Global(), "logger, err := NewWithDefaults()", panicking on an error
GlobalCreate(t) ==
    /\ threads[t].pc = "create"
    /\ \E e \in Envs :
         IF NewWithDefaults(e).err # "nil"
         THEN /\ threads' = [threads EXCEPT ![t].pc = "panic"]
              /\ UNCHANGED created
         ELSE /\ threads' = [threads EXCEPT
                                ![t].pc = "store",
                                ![t].logger = <<[kind |-> "default",
                                                 id |-> created + 1]>>]
              /\ created' = created + 1
    /\ UNCHANGED <<global, sets>>
    /\ UNCHANGED <<factoryVars, logVars, http>>

\* Global(), "global = logger"
GlobalStore(t) ==
    /\ threads[t].pc = "store"
    /\ global' = threads[t].logger
    /\ threads' = [threads EXCEPT ![t].pc = "return"]
    /\ UNCHANGED <<created, sets>>
    /\ UNCHANGED <<factoryVars, logVars, http>>

\* Global(), "return global"
GlobalReturn(t) ==
    /\ threads[t].pc = "return"
    /\ threads' = [threads EXCEPT ![t].pc = "idle",
                                  ![t].ret = global,
                                  ![t].returned = TRUE,
                                  ![t].n = @ + 1]
    /\ UNCHANGED <<global, created, sets>>
    /\ UNCHANGED <<factoryVars, logVars, http>>

\* SetGlobal(logger): "global = logger"
SetGlobal(t) ==
    /\ CanEnter(t)
    /\ \E l \in UserLoggers : global' = <<l>>
    /\ sets' = sets + 1
    /\ threads' = [threads EXCEPT ![t].n = @ + 1]
    /\ UNCHANGED created
    /\ UNCHANGED <<factoryVars, logVars, http>>

GlobalCheckSome == \E t \in Threads : GlobalCheck(t)

GlobalCreateSome == \E t \in Threads : GlobalCreate(t)

GlobalStoreSome == \E t \in Threads : GlobalStore(t)

GlobalReturnSome == \E t \in Threads : GlobalReturn(t)

SetGlobalSome == \E t \in Threads : SetGlobal(t)

GlobalNext ==
    \/ GlobalCheckSome
    \/ GlobalCreateSome
    \/ GlobalStoreSome
    \/ GlobalReturnSome
    \/ SetGlobalSome

GlobalSpec == GlobalInit /\ [][GlobalNext]_vars

\* C25 as stated: the global logger is lazily initialised, thread-safe,
\* replace-only state. Global() never returns nil; in every interleaving of
\* concurrent Global() and SetGlobal calls at most one default logger is
\* created, and as long as no SetGlobal was called all Global() calls return
\* the same instance.
C25_GlobalIsLazySingleton ==
    /\ created <= 1
    /\ \A t \in Threads : threads[t].returned => threads[t].ret # <<>>
    /\ sets = 0 =>
          \A t, u \in Threads :
              (threads[t].returned /\ threads[u].returned)
                  => threads[t].ret = threads[u].ret

(***************************************************************************)
(* Properties of children, SetLevel and the written record                 *)
(***************************************************************************)

\* C21: creating a child through With, WithCtx or WithCallerSkip, and any
\* later operation on that child (logging, SetLevel, further child creation),
\* leaves the parent's level, skip counter, attached fields and export client
\* unchanged: a step changes no logger but the one SetLevel is called on, and
\* of that one only the level. A child holds the export client of its parent,
\* and no export client is opened after the construction of the root.
C21_ChildrenLeaveParentAlone ==
    [][/\ \A i \in DOMAIN loggers :
            /\ i \in DOMAIN loggers'
            /\ ~(last'.op = "SetLevel" /\ last'.logger = i)
                  => loggers'[i] = loggers[i]
            /\ loggers'[i].callerSkip = loggers[i].callerSkip
            /\ loggers'[i].fields = loggers[i].fields
            /\ loggers'[i].otlpProvider = loggers[i].otlpProvider
       /\ \A i \in DOMAIN loggers' :
            origin'[i].parent # 0
                => loggers'[i].otlpProvider = loggers'[origin'[i].parent].otlpProvider
       /\ clients' = clients]_vars

C21_Witness ==
    \E i, j \in DOMAIN loggers :
        /\ origin[i].parent = 1 /\ origin[i].op = "With" /\ origin[i].set = 1
        /\ origin[j].parent = i /\ origin[j].op = "WithCallerSkip"
        /\ IsLog /\ last.logger = i /\ Len(last.sent) = 1
        /\ loggers[i].level = "error" /\ loggers[1].level = "info"
        /\ loggers[1].fields = <<>> /\ loggers[1].callerSkip = 0
        /\ loggers[1].otlpProvider = 1 /\ loggers[i].otlpProvider = 1
        /\ loggers[j].otlpProvider = 1
        /\ clients = 1

\* C24 as stated: after SetLevel(L) on a logger, a call on that logger writes
\* a record if and only if its severity is >= L, whatever level the logger was
\* constructed with.
C24_SetLevelSetsMinimum ==
    (IsLog /\ origin[last.logger].set > 0)
        => (Len(last.written) = 1
               <=> LevelRank(last.sev) >= LevelRank(Callee.level))

\* the logger of the other engine built from the same configuration (export is
\* disabled and every sink is a console stream, so its construction succeeds)
TwinRoot ==
    CreateLoggerCall([raw[1] EXCEPT !.Engine = Alternate(@)],
                     [grpc |-> FALSE, zapSink |-> FALSE, slogSink |-> FALSE],
                     0).logger[1]

\* the operation that made object i, applied to the logger p
Replay(i, p) ==
    CASE origin[i].op = "With" ->
             IF p.engine = "zap" THEN zapWith(p, origin[i].kvs)
             ELSE slogWith(p, origin[i].kvs)
      [] origin[i].op = "WithCtx" ->
             IF p.engine = "zap" THEN zapWithCtx(p, origin[i].kvs)
             ELSE slogWithCtx(p, origin[i].kvs)
      [] origin[i].op = "WithCallerSkip" ->
             IF p.engine = "zap" THEN zapWithCallerSkip(p, origin[i].skip)
             ELSE slogWithCallerSkip(p, origin[i].skip)

\* the logger of the other engine that the call sequence which made object i
\* produces
RECURSIVE Twin(_)
Twin(i) ==
    IF origin[i].parent = 0 THEN TwinRoot
    ELSE Replay(i, Twin(origin[i].parent))

\* the keys of a written record other than the engine key
RecordKeys(w) ==
    w.builtin \cup (IF w.caller THEN {"caller"} ELSE {})
              \cup {w.attrs[k][1] : k \in DOMAIN w.attrs}

\* two calls wrote nothing, or records with the same keys, level text and message
SameRecords(a, b) ==
    /\ Len(a) = Len(b)
    /\ Len(a) = 1 => /\ RecordKeys(a[1]) = RecordKeys(b[1])
                     /\ a[1].text = b[1].text
                     /\ a[1].msg = b[1].msg

\* what the last call writes when it is made on the logger l instead
WrittenBy(l) ==
    Leveled(last.logger, l, last.sev, last.conv, last.kvs,
            [sinkFails |-> last.sinkFailed, exportFails |-> FALSE]).written

\* C22 as stated: identical call sequences (any mix of the three calling
\* conventions, the five severities and With / WithCtx children) against a zap
\* logger and a slog logger built from the same configuration with export
\* disabled produce, for each call, two records that are equal (same keys,
\* same level text, same message) once the engine key is removed.
C22_EnginesWriteEqualRecords ==
    (IsLog /\ ~ExportActive(Callee))
        => SameRecords(last.written, WrittenBy(Twin(last.logger)))

\* C23 as stated: when the disable-caller flag is set in the configuration, no
\* record written by the logger built from it or by any of its children
\* carries a caller attribute, on both engines; when the flag is not set,
\* every written record carries one.
C23_CallerFollowsFlag ==
    (IsLog /\ Len(last.written) = 1)
        => (last.written[1].caller <=> ~DisableCaller(raw[1]))

====
